---- MODULE Spec2Model ----
(***************************************************************************)
(* State-machine model of the two VRM viewer components of mr-rehab-3d:    *)
(* the animation-capable VRMViewer (setup effect keyed on modelUrl) and    *)
(* the basic page viewer (setup effect run once).  A viewer instance is    *)
(* one run of the setup effect: its scene, currentVrm, mixer and           *)
(* activeAction are closure variables, while isLoading, modelUrl,          *)
(* animationUrl, error and activeExpression are React state of the         *)
(* component and shared by all instances.  Loader requests are kept in a   *)
(* set and their callbacks fire in any order.                              *)
(***************************************************************************)
EXTENDS Integers, Sequences, FiniteSets, TLC

\* ---------------------------------------------------------------- bounds
MaxLoads == 3       \* loader.load calls issued in one behaviour
MaxInst == 2        \* runs of the setup effect in one behaviour
MaxTracks == 3      \* tracks of an FBX clip given to the retargeting

\* ------------------------------------------------------- string functions
Upper == "ABCDEFGHIJKLMNOPQRSTUVWXYZ"
Lower == "abcdefghijklmnopqrstuvwxyz"

LowerOf == [i \in 1..Len(Upper) |-> SubSeq(Lower, i, i)]

UpperIndex ==
  [c \in {SubSeq(Upper, i, i) : i \in 1..Len(Upper)} |->
     CHOOSE i \in 1..Len(Upper) : SubSeq(Upper, i, i) = c]

LowerChar(c) == IF c \in DOMAIN UpperIndex THEN LowerOf[UpperIndex[c]] ELSE c

RECURSIVE toLowerCase(_)
toLowerCase(s) ==
  IF Len(s) = 0 THEN ""
  ELSE LowerChar(SubSeq(s, 1, 1)) \o toLowerCase(SubSeq(s, 2, Len(s)))

includes(s, sub) ==
  \E i \in 1..(Len(s) - Len(sub) + 1) : SubSeq(s, i, i + Len(sub) - 1) = sub

endsWith(s, suf) ==
  Len(s) >= Len(suf) /\ SubSeq(s, Len(s) - Len(suf) + 1, Len(s)) = suf

startsWith(s, pre) ==
  Len(s) >= Len(pre) /\ SubSeq(s, 1, Len(pre)) = pre

RECURSIVE split(_)
split(s) ==
  IF ~includes(s, ".") THEN <<s>>
  ELSE LET i == CHOOSE j \in 1..Len(s) :
                  /\ SubSeq(s, j, j) = "."
                  /\ \A k \in 1..(j - 1) : SubSeq(s, k, k) # "."
       IN <<SubSeq(s, 1, i - 1)>> \o split(SubSeq(s, i + 1, Len(s)))

\* ------------------------------------------------------------- constants
Null == [null |-> TRUE]

expressionWeight == 1

expressions ==
  <<"neutral", "happy", "angry", "sad", "relaxed", "surprised", "aa", "ih",
    "ou", "ee", "oh", "blink", "blinkLeft", "blinkRight">>

Presets == {expressions[k] : k \in 1..Len(expressions)}

InitialModelUrl == "/models/daw.vrm"

\* The humanoid bone names the retargeting iterates over, in enum order
\* (the torso, head and hand entries of VRMHumanBoneName).
VRMHumanBoneName ==
  <<"hips", "spine", "chest", "upperChest", "neck", "head", "leftHand", "rightHand">>

BoneNames == {VRMHumanBoneName[k] : k \in 1..Len(VRMHumanBoneName)}

\* ---------------------------------------------------------------- inputs
Viewers == {"VRMViewer", "page"}

ModelUrls == {"", InitialModelUrl, "/models/b.vrm"}

AnimationUrls == {"", "/anim/walk.FBX", "/anim/wave.glb"}

\* What is typed into the animation URL field.
AnimationFieldUrls == {"", "/anim/walk.FBX"}

\* What a loader hands to its error callback.
LoaderErrors ==
  { [kind |-> "object", message |-> ""],
    [kind |-> "other", message |-> ""] }

Node(n) == [name |-> n]

AllBones == [b \in BoneNames |-> Node("J_" \o b)]

\* A humanoid that has no node for the optional bones.
SomeBones ==
  [b \in BoneNames |-> IF b \in {"chest", "upperChest"} THEN Null ELSE Node("J_" \o b)]

Manager(defined) == [weight |-> [e \in defined |-> 0]]

\* What the GLTF loader hands to loadVRM's success callback: userData.vrm.
VrmFiles ==
  { Null,
    [sceneOk |-> TRUE, expressionManager |-> Manager(Presets),
     humanoid |-> [bones |-> AllBones]],
    [sceneOk |-> TRUE, expressionManager |-> Manager({"happy", "angry"}),
     humanoid |-> [bones |-> SomeBones]],
    [sceneOk |-> FALSE, expressionManager |-> Null, humanoid |-> Null] }

\* ----------------------------------------------------------------- state
VARIABLES
  viewer,            \* which component this is
  phase,             \* "new", "mounted" or "unmounted"
  isLoading,         \* React state
  modelUrl,          \* React state
  animationUrl,      \* React state (VRMViewer)
  error,             \* React state
  activeExpression,  \* React state (VRMViewer)
  inst,              \* the viewer instances, oldest first; the last is current
  pending,           \* loader requests whose callback has not fired
  issued,            \* number of loader.load calls so far
  last               \* the step taken last

vars ==
  <<viewer, phase, isLoading, modelUrl, animationUrl, error, activeExpression,
    inst, pending, issued, last>>

react == <<isLoading, modelUrl, animationUrl, error, activeExpression>>

\* A fresh run of the setup effect: empty scene, no model, no mixer.
NewInstance ==
  [cleaned |-> FALSE, scene |-> {}, currentVrm |-> Null, mixer |-> Null,
   activeAction |-> 0]

Step(op, i, req, out) == [op |-> op, inst |-> i, req |-> req, out |-> out]

Init ==
  /\ viewer \in Viewers
  /\ phase = "new"
  /\ isLoading = FALSE
  /\ modelUrl = InitialModelUrl
  /\ animationUrl = ""
  /\ error = ""
  /\ activeExpression = ""
  /\ inst = <<>>
  /\ pending = {}
  /\ issued = 0
  /\ last = Step("init", 0, 0, "")

\* A state setter changes the component's state until the component is
\* unmounted; after that it changes nothing.
SetState(new, old) == IF phase = "unmounted" THEN old ELSE new

\* ------------------------------------------------------ resetExpressions
\* The expression manager's setValue: the weight is clamped to [0, 1], and a
\* name the model does not define is ignored.
saturate(w) == IF w < 0 THEN 0 ELSE IF w > 1 THEN 1 ELSE w

setValue(mgr, name, w) ==
  IF name \in DOMAIN mgr.weight
  THEN [mgr EXCEPT !.weight[name] = saturate(w)]
  ELSE mgr

RECURSIVE ResetAll(_, _)
ResetAll(mgr, k) ==
  IF k > Len(expressions) THEN mgr
  ELSE ResetAll(setValue(mgr, expressions[k], 0), k + 1)

HasManager(v) == v # Null /\ v.expressionManager # Null

\* resetExpressions as a function of currentVrm and activeExpression.
resetExpressions(v, active) ==
  IF ~HasManager(v) THEN [vrm |-> v, active |-> active]
  ELSE [vrm |-> [v EXCEPT !.expressionManager = ResetAll(v.expressionManager, 1)],
        active |-> SetState("", active)]

\* ---------------------------------------------------------------- loadVRM
Request(i, kind) == [id |-> issued + 1, inst |-> i, kind |-> kind]

\* Mutant: loadVRM that forgets mixer = null.
loadVRMClearKeepsMixer(I) ==
  LET removed == IF I.currentVrm # Null
                 THEN [I EXCEPT !.scene = @ \ {I.currentVrm.id}, !.currentVrm = Null]
                 ELSE I
  IN [removed EXCEPT !.activeAction = 0]

\* The closure variables after loadVRM's synchronous part.
loadVRMClear(I) ==
  LET removed == IF I.currentVrm # Null
                 THEN [I EXCEPT !.scene = @ \ {I.currentVrm.id}, !.currentVrm = Null]
                 ELSE I
      reset == [removed EXCEPT !.mixer = Null, !.activeAction = 0]
  IN [reset EXCEPT !.currentVrm = resetExpressions(reset.currentVrm, activeExpression).vrm]

\* loadVRM(url) of instance i, run on the instances `insts`.
loadVRM(insts, i, url) ==
  IF url = ""
  THEN /\ inst' = insts
       /\ UNCHANGED <<isLoading, error, activeExpression, pending, issued>>
  ELSE /\ isLoading' = SetState(TRUE, isLoading)
       /\ error' = SetState("", error)
       /\ inst' = [insts EXCEPT ![i] = loadVRMClear(insts[i])]
       /\ activeExpression' =
            resetExpressions(loadVRMClear(insts[i]).currentVrm, activeExpression).active
       /\ pending' = pending \cup {Request(i, "vrm")}
       /\ issued' = issued + 1

Issuable(url) == url = "" \/ issued < MaxLoads

Current == Len(inst)

Mounted == phase = "mounted"

\* ------------------------------------------------- loadVRM's callbacks
ErrorMessage(e) ==
  IF e.kind = "Error" THEN e.message
  ELSE IF e.kind = "object" THEN e.message
  ELSE "Unknown error"

Vrm(rid, file) ==
  [id |-> rid, sceneOk |-> file.sceneOk,
   expressionManager |-> file.expressionManager, humanoid |-> file.humanoid]

\* loadVRM's success callback on the closure variables I: the new closure
\* variables, the message given to setError (none: <<>>), and whether
\* setIsLoading(false) is reached.
vrmOnLoad(I, rid, file) ==
  IF file # Null
  THEN LET set == [I EXCEPT !.currentVrm = Vrm(rid, file)]
       IN IF ~file.sceneOk
          THEN [inst |-> set, err |-> <<>>, done |-> FALSE, out |-> "threw"]
          ELSE [inst |-> [set EXCEPT !.scene = @ \cup {rid}], err |-> <<>>,
                done |-> TRUE, out |-> "loaded"]
  ELSE [inst |-> I, err |-> <<"Failed to load VRM model: No VRM data found">>,
        done |-> TRUE, out |-> "noVrmData"]

\* Mutant: the error callback that forgets setIsLoading(false).
vrmOnErrorStillLoading(I, rid, e) ==
  [inst |-> I, err |-> <<"Failed to load VRM model: " \o ErrorMessage(e)>>,
   done |-> FALSE, out |-> "error"]

vrmOnError(I, rid, e) ==
  [inst |-> I, err |-> <<"Failed to load VRM model: " \o ErrorMessage(e)>>,
   done |-> TRUE, out |-> "error"]

\* Mutant: the callback puts the request back in flight under a new id.
SettleAndRetry(r) == (pending \ {r}) \cup {[r EXCEPT !.id = issued + 1]}

\* What is left in flight once the callback of request r has run.
Settle(r) == pending \ {r}

\* A callback's result res applied to the state.
Apply(r, res, op) ==
  /\ inst' = [inst EXCEPT ![r.inst] = res.inst]
  /\ error' = IF res.err = <<>> THEN error ELSE SetState(res.err[1], error)
  /\ isLoading' = IF res.done THEN SetState(FALSE, isLoading) ELSE isLoading
  /\ pending' = Settle(r)
  /\ last' = Step(op, r.inst, r.id, res.out)
  /\ UNCHANGED <<viewer, phase, modelUrl, animationUrl, activeExpression, issued>>

VrmOnLoad(r, file) ==
  /\ r \in pending /\ r.kind = "vrm"
  /\ Apply(r, vrmOnLoad(inst[r.inst], r.id, file), "vrmOnLoad")

VrmOnError(r, e) ==
  /\ r \in pending /\ r.kind = "vrm"
  /\ Apply(r, vrmOnError(inst[r.inst], r.id, e), "vrmOnError")

\* ------------------------------------------------------- bone retargeting
\* boneMapping is an object: its entries are kept in insertion order, and
\* assigning to a key it already has replaces the value in place.
Put(m, k, v) ==
  IF \E j \in 1..Len(m) : m[j].key = k
  THEN [j \in 1..Len(m) |-> IF m[j].key = k THEN [key |-> k, bone |-> v] ELSE m[j]]
  ELSE Append(m, [key |-> k, bone |-> v])

RECURSIVE PutAll(_, _, _)
PutAll(m, keys, v) ==
  IF keys = <<>> THEN m ELSE PutAll(Put(m, Head(keys), v), Tail(keys), v)

\* The keys one humanoid bone is entered under, in the order they are assigned.
BoneKeys(boneName) ==
  LET lowerName == toLowerCase(boneName)
  IN <<boneName, lowerName>>
     \o (IF includes(lowerName, "spine") THEN <<"spine">> ELSE <<>>)
     \o (IF includes(lowerName, "neck") THEN <<"neck">> ELSE <<>>)
     \o (IF includes(lowerName, "head") THEN <<"head">> ELSE <<>>)
     \o (IF includes(lowerName, "lefthand") THEN <<"hand_l", "left_hand">> ELSE <<>>)
     \o (IF includes(lowerName, "righthand") THEN <<"hand_r", "right_hand">> ELSE <<>>)

\* A bone without a node is not an Object3D, and the loop throws on it.
NodeAccepted(vrmBone) == vrmBone # Null

RECURSIVE BuildFrom(_, _, _)
BuildFrom(humanoid, k, m) ==
  IF k > Len(VRMHumanBoneName) THEN [threw |-> FALSE, mapping |-> m]
  ELSE LET boneName == VRMHumanBoneName[k]
           vrmBone == humanoid.bones[boneName]
       IN IF ~NodeAccepted(vrmBone) THEN [threw |-> TRUE, mapping |-> m]
          ELSE BuildFrom(humanoid, k + 1, PutAll(m, BoneKeys(boneName), vrmBone))

buildBoneMapping(v) ==
  IF v.humanoid = Null THEN [threw |-> FALSE, mapping |-> <<>>]
  ELSE BuildFrom(v.humanoid, 1, <<>>)

Matches(fbxNameLower, key) ==
  \/ includes(fbxNameLower, toLowerCase(key))
  \/ includes(toLowerCase(key), fbxNameLower)

\* boneMapping is created as {}: reading a name it does not have as a key of
\* its own gives what Object.prototype has under that name, a function or
\* object that is truthy.  Inherited(k) is that value as far as the code uses
\* it: its name property as the template string prints it.
ObjectPrototype == {"constructor", "toString", "valueOf", "hasOwnProperty", "__proto__"}

Inherited(k) ==
  Node(IF k = "constructor" THEN "Object" ELSE IF k = "__proto__" THEN "undefined" ELSE k)

\* The VRM bone of an FBX bone name: boneMapping[fbxBoneName] when that is
\* truthy, else the first entry whose key matches; Null when there is none.
findBone(m, fbxBoneName) ==
  IF \E j \in 1..Len(m) : m[j].key = fbxBoneName
  THEN m[CHOOSE j \in 1..Len(m) : m[j].key = fbxBoneName].bone
  ELSE IF fbxBoneName \in ObjectPrototype THEN Inherited(fbxBoneName)
  ELSE LET fbxNameLower == toLowerCase(fbxBoneName)
           hits == {j \in 1..Len(m) : Matches(fbxNameLower, m[j].key)}
       IN IF hits = {} THEN Null
          ELSE m[CHOOSE j \in hits : \A k \in hits : j <= k].bone

TrackType(t) ==
  IF t.type = "quaternion" THEN "quaternion"
  ELSE IF t.type = "vector" THEN "vector"
  ELSE "keyframe"

\* The tracks one source track contributes to the retargeted clip.
retargetTrack(m, track) ==
  LET trackSplit == split(track.name)
  IN IF Len(trackSplit) < 2 THEN <<>>
     ELSE LET vrmBone == findBone(m, trackSplit[1])
          IN IF vrmBone = Null THEN <<>>
             ELSE <<[name |-> vrmBone.name \o "." \o trackSplit[2],
                     type |-> TrackType(track),
                     times |-> track.times, values |-> track.values]>>

RECURSIVE retargetTracks(_, _)
retargetTracks(m, tracks) ==
  IF tracks = <<>> THEN <<>>
  ELSE retargetTrack(m, Head(tracks)) \o retargetTracks(m, Tail(tracks))

fallbackClip ==
  [name |-> "fallback-motion", duration |-> 20,
   tracks |-> <<[name |-> ".position", type |-> "vector",
                 times |-> <<0, 10, 20>>, values |-> <<0, 0, 0, 0, 1, 0, 0, 0, 0>>]>>]

\* ----------------------------------------------------------- playAnimation
Track(n, ty, k) == [name |-> n, type |-> ty, times |-> <<0, k>>, values |-> <<k, k + 1>>]

\* What the FBX loader hands to the success callback: fbx.animations.
FbxFiles ==
  { <<>>,
    << [name |-> "idle", duration |-> 10,
        tracks |-> <<Track("Armature.position", "vector", 1)>>] >>,
    << [name |-> "walk", duration |-> 30,
        tracks |-> <<Track("mixamorigHips.quaternion", "quaternion", 1),
                     Track("root", "number", 2),
                     Track("Tail.scale", "vector", 3),
                     Track("LeftHand.position.x", "number", 4)>>] >> }

\* What the GLTF loader hands to playAnimation's success callback.
GltfFiles ==
  { <<>>,
    << [name |-> "wave", duration |-> 10,
        tracks |-> <<Track("J_hips.quaternion", "quaternion", 1)>>] >> }

fadeOut(I) ==
  IF I.mixer = Null THEN I
  ELSE [I EXCEPT !.mixer.actions =
          {IF a.id = I.activeAction THEN [a EXCEPT !.faded = TRUE] ELSE a : a \in @}]

\* if (activeAction) { activeAction.fadeOut(0.5); activeAction = null; }
clearAction(I) ==
  IF I.activeAction # 0 THEN [fadeOut(I) EXCEPT !.activeAction = 0] ELSE I

isFBX(url) == endsWith(toLowerCase(url), ".fbx")

\* Mutant: the guard without its currentVrm test.
AcceptedUrlOnly(I, url) == url # ""

Accepted(I, url) == I.currentVrm # Null /\ url # ""

playAnimation(i, url) ==
  IF ~Accepted(inst[i], url)
  THEN /\ UNCHANGED <<inst, pending, issued>>
       /\ last' = Step("playAnimation", i, 0, "rejected")
  ELSE /\ inst' = [inst EXCEPT ![i] = clearAction(@)]
       /\ pending' = pending \cup {Request(i, IF isFBX(url) THEN "fbx" ELSE "gltf")}
       /\ issued' = issued + 1
       /\ last' = Step("playAnimation", i, issued + 1, "issued")

SceneOf(v) == IF v = Null THEN 0 ELSE v.id

ensureMixer(I) ==
  IF I.mixer = Null
  THEN [I EXCEPT !.mixer = [root |-> SceneOf(I.currentVrm), actions |-> {}]]
  ELSE I

\* mixer.clipAction(clip), reset().fadeIn(0.5).play(), activeAction = action.
play(I, rid, clip) ==
  [I EXCEPT !.mixer.actions = @ \cup {[id |-> rid, clip |-> clip, loop |-> "LoopRepeat",
                                       faded |-> FALSE]},
            !.activeAction = rid]

Result(I, err, out) == [inst |-> I, err |-> err, done |-> FALSE, out |-> out]

\* The part of the FBX callback inside try { ... } catch.
applyFbx(I, rid, clip) ==
  LET bm == buildBoneMapping(I.currentVrm)
      tracks == retargetTracks(bm.mapping, clip.tracks)
  IN IF bm.threw
     THEN Result(I, <<"Error applying animation: VRM bone is not an Object3D">>, "threw")
     ELSE IF tracks = <<>>
     THEN Result(play(I, rid, fallbackClip), <<>>, "fallback")
     ELSE Result(play(I, rid, [name |-> "retargeted-animation",
                               duration |-> clip.duration, tracks |-> tracks]),
                 <<>>, "retargeted")

fbxOnLoad(I, rid, animations) ==
  IF I.currentVrm = Null THEN Result(I, <<>>, "noModel")
  ELSE IF animations = <<>>
  THEN Result(ensureMixer(I), <<"No animation found in the FBX file">>, "noAnimation")
  ELSE applyFbx(ensureMixer(I), rid, animations[1])

\* Mutant: the GLTF callback without its currentVrm check.
gltfOnLoadUnchecked(I, rid, animations) ==
  IF animations = <<>>
  THEN Result(ensureMixer(I), <<>>, "noAnimation")
  ELSE Result(play(ensureMixer(I), rid, animations[1]), <<>>, "played")

gltfOnLoad(I, rid, animations) ==
  IF I.currentVrm = Null THEN Result(I, <<>>, "noModel")
  ELSE IF animations = <<>>
  THEN Result(ensureMixer(I), <<>>, "noAnimation")
  ELSE Result(play(ensureMixer(I), rid, animations[1]), <<>>, "played")

animOnError(I, e) ==
  Result(I, <<"Failed to load animation: " \o ErrorMessage(e)>>, "error")

FbxOnLoad(r, animations) ==
  /\ r \in pending /\ r.kind = "fbx"
  /\ Apply(r, fbxOnLoad(inst[r.inst], r.id, animations), "fbxOnLoad")

FbxOnError(r, e) ==
  /\ r \in pending /\ r.kind = "fbx"
  /\ Apply(r, animOnError(inst[r.inst], e), "fbxOnError")

GltfOnLoad(r, animations) ==
  /\ r \in pending /\ r.kind = "gltf"
  /\ Apply(r, gltfOnLoad(inst[r.inst], r.id, animations), "gltfOnLoad")

GltfOnError(r, e) ==
  /\ r \in pending /\ r.kind = "gltf"
  /\ Apply(r, animOnError(inst[r.inst], e), "gltfOnError")

\* The animation URL input's onChange.
SetAnimationUrl(u) ==
  /\ Mounted /\ viewer = "VRMViewer" /\ ~isLoading
  /\ u # animationUrl
  /\ animationUrl' = u
  /\ last' = Step("setAnimationUrl", Current, 0, "")
  /\ UNCHANGED <<viewer, phase, isLoading, modelUrl, error, activeExpression, inst,
                 pending, issued>>

\* The Play button, enabled while not loading and the URL is not empty.
HandlePlayAnimation ==
  /\ Mounted /\ viewer = "VRMViewer" /\ ~isLoading /\ animationUrl # ""
  /\ Issuable(animationUrl)
  /\ playAnimation(Current, animationUrl)
  /\ UNCHANGED <<viewer, phase, react>>

\* A call of the playAnimation method on the container.
ContainerPlayAnimation(url) ==
  /\ Mounted /\ viewer = "VRMViewer"
  /\ Issuable(url)
  /\ playAnimation(Current, url)
  /\ UNCHANGED <<viewer, phase, react>>

stopAnimation(I) == clearAction(I)

\* The Stop button.
HandleStopAnimation ==
  /\ Mounted /\ viewer = "VRMViewer"
  /\ inst' = [inst EXCEPT ![Current] = stopAnimation(@)]
  /\ last' = Step("stopAnimation", Current, 0, "")
  /\ UNCHANGED <<viewer, phase, react, pending, issued>>

\* ------------------------------------------------------------- expressions
ExpressionNames == {"happy", "sad"}

Weights == {-1, 0, 1, 2}

\* Mutant: setExpression without the resetExpressions() call.
setExpressionNoReset(v, active, expression, weight) ==
  IF ~HasManager(v) THEN [vrm |-> v, active |-> active]
  ELSE [vrm |-> [v EXCEPT !.expressionManager = setValue(@, expression, weight)],
        active |-> SetState(expression, active)]

\* setExpression as a function of currentVrm and activeExpression.
setExpression(v, active, expression, weight) ==
  IF ~HasManager(v) THEN [vrm |-> v, active |-> active]
  ELSE LET r == resetExpressions(v, active)
       IN [vrm |-> [r.vrm EXCEPT !.expressionManager = setValue(@, expression, weight)],
           active |-> SetState(expression, r.active)]

SetExpression(expression, weight) ==
  LET r == setExpression(inst[Current].currentVrm, activeExpression, expression, weight)
  IN /\ inst' = [inst EXCEPT ![Current].currentVrm = r.vrm]
     /\ activeExpression' = r.active
     /\ last' = Step("setExpression", Current, 0,
                     IF HasManager(inst[Current].currentVrm) THEN expression ELSE "")
     /\ UNCHANGED <<viewer, phase, isLoading, modelUrl, animationUrl, error, pending, issued>>

\* An expression button: setExpression(expr) with the default weight.
HandleSetExpression(expression) ==
  /\ Mounted /\ viewer = "VRMViewer"
  /\ expression \in Presets
  /\ SetExpression(expression, expressionWeight)

\* A call of the setExpression method on the container.
ContainerSetExpression(expression, weight) ==
  /\ Mounted /\ viewer = "VRMViewer"
  /\ SetExpression(expression, weight)

\* The Reset Expressions button.
HandleResetExpressions ==
  /\ Mounted /\ viewer = "VRMViewer"
  /\ LET r == resetExpressions(inst[Current].currentVrm, activeExpression)
     IN /\ inst' = [inst EXCEPT ![Current].currentVrm = r.vrm]
        /\ activeExpression' = r.active
  /\ last' = Step("resetExpressions", Current, 0, "")
  /\ UNCHANGED <<viewer, phase, isLoading, modelUrl, animationUrl, error, pending, issued>>

\* ------------------------------------------------------------- lifecycle
\* Mutant: a cleanup that leaves the instance as it is.
cleanupNothing(I) == I

\* The cleanup function of the setup effect: scene.clear().
cleanup(I) == [I EXCEPT !.cleaned = TRUE, !.scene = {}]

\* The setup effect on mount: a new instance, and the initial load.
Mount ==
  /\ phase = "new"
  /\ phase' = "mounted"
  /\ Issuable(modelUrl)
  /\ loadVRM(Append(inst, NewInstance), 1, modelUrl)
  /\ last' = Step("mount", 1, IF modelUrl # "" THEN issued + 1 ELSE 0, "")
  /\ UNCHANGED <<viewer, modelUrl, animationUrl>>

\* The model URL input's onChange.  In VRMViewer the setup effect depends on
\* modelUrl: the old instance is cleaned up and a new one is set up.
SetModelUrl(u) ==
  /\ Mounted /\ ~isLoading
  /\ u # modelUrl
  /\ modelUrl' = u
  /\ IF viewer = "VRMViewer"
     THEN /\ Len(inst) < MaxInst
          /\ Issuable(u)
          /\ loadVRM(Append([inst EXCEPT ![Current] = cleanup(@)], NewInstance),
                     Current + 1, u)
          /\ last' = Step("setModelUrl", Current + 1, IF u # "" THEN issued + 1 ELSE 0, "rerun")
     ELSE /\ UNCHANGED <<isLoading, error, activeExpression, inst, pending, issued>>
          /\ last' = Step("setModelUrl", Current, 0, "")
  /\ UNCHANGED <<viewer, phase, animationUrl>>

\* The Load button, enabled while not loading and the URL is not empty.
HandleLoadModel ==
  /\ Mounted /\ ~isLoading /\ modelUrl # ""
  /\ Issuable(modelUrl)
  /\ loadVRM(inst, Current, modelUrl)
  /\ last' = Step("loadVRM", Current, issued + 1, "issued")
  /\ UNCHANGED <<viewer, phase, modelUrl, animationUrl>>

\* A call of the loadVRM method that the setup effect puts on the container.
ContainerLoadVRM(url) ==
  /\ Mounted
  /\ Issuable(url)
  /\ loadVRM(inst, Current, url)
  /\ last' = IF url = "" THEN Step("loadVRM", Current, 0, "rejected")
             ELSE Step("loadVRM", Current, issued + 1, "issued")
  /\ UNCHANGED <<viewer, phase, modelUrl, animationUrl>>

Unmount ==
  /\ Mounted
  /\ phase' = "unmounted"
  /\ inst' = [inst EXCEPT ![Current] = cleanup(@)]
  /\ last' = Step("unmount", Current, 0, "")
  /\ UNCHANGED <<viewer, react, pending, issued>>

\* ------------------------------------------------------- specifications
\* The whole component: the imperative functions and the form that drives them.
Next ==
  \/ Mount
  \/ \E u \in ModelUrls : SetModelUrl(u)
  \/ HandleLoadModel
  \/ \E u \in ModelUrls : ContainerLoadVRM(u)
  \/ \E r \in pending, f \in VrmFiles : VrmOnLoad(r, f)
  \/ \E r \in pending, e \in LoaderErrors : VrmOnError(r, e)
  \/ \E u \in AnimationFieldUrls : SetAnimationUrl(u)
  \/ HandlePlayAnimation
  \/ \E u \in AnimationUrls : ContainerPlayAnimation(u)
  \/ HandleStopAnimation
  \/ \E r \in pending, f \in FbxFiles : FbxOnLoad(r, f)
  \/ \E r \in pending, e \in LoaderErrors : FbxOnError(r, e)
  \/ \E r \in pending, f \in GltfFiles : GltfOnLoad(r, f)
  \/ \E r \in pending, e \in LoaderErrors : GltfOnError(r, e)
  \/ \E x \in ExpressionNames : HandleSetExpression(x)
  \/ \E x \in ExpressionNames, w \in Weights : ContainerSetExpression(x, w)
  \/ HandleResetExpressions
  \/ Unmount

Spec == Init /\ [][Next]_vars

\* Models and animations: the lifecycle, loadVRM, playAnimation and
\* stopAnimation called in any order, and the loader callbacks.  The form's
\* Load and Play buttons are calls of the same functions under a guard, and the
\* expression functions touch neither the scene nor the mixer.
NextAnimation ==
  \/ Mount
  \/ \E u \in ModelUrls : ContainerLoadVRM(u)
  \/ \E r \in pending, f \in VrmFiles : VrmOnLoad(r, f)
  \/ \E r \in pending, e \in LoaderErrors : VrmOnError(r, e)
  \/ \E u \in AnimationUrls : ContainerPlayAnimation(u)
  \/ HandleStopAnimation
  \/ \E r \in pending, f \in FbxFiles : FbxOnLoad(r, f)
  \/ \E r \in pending, e \in LoaderErrors : FbxOnError(r, e)
  \/ \E r \in pending, f \in GltfFiles : GltfOnLoad(r, f)
  \/ \E r \in pending, e \in LoaderErrors : GltfOnError(r, e)
  \/ Unmount

SpecAnimation == Init /\ [][NextAnimation]_vars

\* Models and expressions: mount and unmount, loadVRM and its success
\* callback, setExpression and resetExpressions, called in any order.
NextExpression ==
  \/ Mount
  \/ \E u \in ModelUrls : ContainerLoadVRM(u)
  \/ \E r \in pending, f \in VrmFiles : VrmOnLoad(r, f)
  \/ \E x \in ExpressionNames : HandleSetExpression(x)
  \/ \E x \in ExpressionNames, w \in Weights : ContainerSetExpression(x, w)
  \/ HandleResetExpressions
  \/ Unmount

SpecExpression == Init /\ [][NextExpression]_vars

\* The setup effect and the model form: mount, model-URL changes, the Load
\* button, loadVRM's callbacks and unmount.
NextLifecycle ==
  \/ Mount
  \/ \E u \in ModelUrls : SetModelUrl(u)
  \/ HandleLoadModel
  \/ \E r \in pending, f \in VrmFiles : VrmOnLoad(r, f)
  \/ \E r \in pending, e \in LoaderErrors : VrmOnError(r, e)
  \/ Unmount

SpecLifecycle == Init /\ [][NextLifecycle]_vars

\* The retargeting alone: instance 1 has a model and one FBX request in
\* flight (the state after mount, the model's success callback and
\* playAnimation), and the request's file is a clip of up to MaxTracks tracks.
SourceTracks ==
  { Track("mixamorigHips.quaternion", "quaternion", 1),
    Track("hips.position", "vector", 2),
    Track("root", "number", 3),
    Track("Tail.scale", "vector", 4),
    Track("LeftHand.position.x", "number", 5),
    Track(".position", "vector", 6),
    Track("ne.scale", "vector", 7),
    Track("hand_r.quaternion", "quaternion", 8),
    Track("constructor.position", "vector", 9) }

TrackSeqs == UNION {[1..n -> SourceTracks] : n \in 0..MaxTracks}

InitRetarget ==
  /\ viewer = "VRMViewer"
  /\ phase = "mounted"
  /\ isLoading = FALSE
  /\ modelUrl = InitialModelUrl
  /\ animationUrl = "/anim/walk.FBX"
  /\ error = ""
  /\ activeExpression = ""
  /\ \E f \in VrmFiles \ {Null}, tracks \in TrackSeqs :
       /\ inst = <<[NewInstance EXCEPT !.currentVrm = Vrm(1, f),
                                       !.scene = IF f.sceneOk THEN {1} ELSE {}]>>
       /\ pending = {[id |-> 2, inst |-> 1, kind |-> "fbx",
                      file |-> <<[name |-> "clip", duration |-> 10, tracks |-> tracks]>>]}
  /\ issued = 2
  /\ last = Step("playAnimation", 1, 2, "issued")

\* The FBX loader delivers the file of request r.
DeliverFbx(r) ==
  /\ "file" \in DOMAIN r
  /\ FbxOnLoad(r, r.file)

NextRetarget ==
  \/ \E r \in pending : DeliverFbx(r)

SpecRetarget == InitRetarget /\ [][NextRetarget]_vars

\* ------------------------------------------------------------------ claims
Instances == 1..Len(inst)

Actions(I) == IF I.mixer = Null THEN {} ELSE I.mixer.actions

\* The actions of an instance that play and have not been faded out.
Playing(I) == {a \in Actions(I) : ~a.faded}

\* The instance's model is the one shown: its scene was accepted and added.
Displayed(I) == I.currentVrm # Null /\ I.currentVrm.id \in I.scene

\* C1: the scene of an instance holds at most one model scene graph, and when
\* it holds one, that is the scene of the instance's currentVrm (of a
\* currentVrm whose scene the success callback accepted).
C1_AtMostOneModel ==
  \A i \in Instances :
    /\ Cardinality(inst[i].scene) <= 1
    /\ inst[i].scene # {} =>
         /\ inst[i].currentVrm # Null
         /\ inst[i].currentVrm.sceneOk => inst[i].scene = {inst[i].currentVrm.id}

\* C2: in an instance (one that shows its model) at most one animation action
\* plays without having been faded out, and that action is activeAction.
C2_AtMostOneClip ==
  \A i \in Instances :
    Displayed(inst[i]) =>
      /\ Cardinality(Playing(inst[i])) <= 1
      /\ \A a \in Playing(inst[i]) : inst[i].activeAction = a.id

MixerCreated(i) == inst[i].mixer = Null /\ inst'[i].mixer # Null

ActionStarted(i) ==
  \E a \in Playing(inst'[i]) : \A b \in Actions(inst[i]) : b.id # a.id

\* C3: a step that creates the mixer of an instance or starts an animation
\* action in it is taken while the instance's currentVrm is not null; an
\* animation callback that fires while it is null does neither.
C3_ModelBeforeAnimation ==
  [][\A i \in Instances :
       (MixerCreated(i) \/ ActionStarted(i)) => inst[i].currentVrm # Null]_vars

C3_Witness ==
  /\ last.op \in {"fbxOnLoad", "gltfOnLoad"}
  /\ last.out = "noModel"
  /\ inst[last.inst].currentVrm = Null
  /\ inst[last.inst].mixer = Null

ModelLoadFailed ==
  \/ last.op = "vrmOnError"
  \/ last.op = "vrmOnLoad" /\ last.out = "noVrmData"

\* C4: when a model load has just failed (error callback, or a parse without
\* VRM data), the mounted component's error begins with 'Failed to load VRM
\* model: ' and isLoading is false, and the failed load's model is in no scene.
C4_ModelFailureSurfaced ==
  ModelLoadFailed =>
    /\ Mounted => /\ startsWith(error, "Failed to load VRM model: ")
                  /\ error # ""
                  /\ isLoading = FALSE
    /\ \A i \in Instances : last.req \notin inst[i].scene

C4_Witness ==
  /\ ModelLoadFailed
  /\ Mounted
  /\ error = "Failed to load VRM model: No VRM data found"
  /\ ~isLoading

AnimationLoadFailed ==
  /\ last.op \in {"fbxOnLoad", "fbxOnError", "gltfOnLoad", "gltfOnError"}
  /\ last.out \in {"error", "noAnimation", "threw"}

\* C5: when an accepted playAnimation request has just ended without an
\* animation being played (loader error, no clip in the file, exception while
\* applying the clip), the mounted component's error is a non-empty string
\* (stated for an instance that shows its model).
C5_AnimationFailureSurfaced ==
  (AnimationLoadFailed /\ Mounted /\ Displayed(inst[last.inst])) => error # ""

RECURSIVE PresentFrom(_, _, _)
PresentFrom(humanoid, k, m) ==
  IF k > Len(VRMHumanBoneName) THEN m
  ELSE LET boneName == VRMHumanBoneName[k]
           vrmBone == humanoid.bones[boneName]
       IN PresentFrom(humanoid, k + 1,
                      IF vrmBone = Null THEN m ELSE PutAll(m, BoneKeys(boneName), vrmBone))

\* The bone mapping of the bones a model has nodes for.
PresentBones(v) ==
  IF v.humanoid = Null THEN <<>> ELSE PresentFrom(v.humanoid, 1, <<>>)

NoTrackMatches(v, clip) == retargetTracks(PresentBones(v), clip.tracks) = <<>>

FallbackStarted(I, rid) ==
  /\ I.activeAction = rid
  /\ \E a \in Playing(I) :
       a.id = rid /\ a.clip.name = "fallback-motion" /\ a.loop = "LoopRepeat"

\* C6: when an FBX file with at least one clip loads while the instance has a
\* model, and no track of the first clip matches a bone of that model, the
\* looping 'fallback-motion' clip is started and becomes activeAction.
C6_FallbackWhenNoBoneMatches ==
  [][\A r \in pending, f \in FbxFiles :
       ( /\ FbxOnLoad(r, f)
         /\ f # <<>>
         /\ inst[r.inst].currentVrm # Null
         /\ NoTrackMatches(inst[r.inst].currentVrm, f[1]) )
       => FallbackStarted(inst'[r.inst], r.id)]_vars

Settled(r) == r \in pending /\ pending' = pending \ {r}

\* C9: once the cleanup of an instance has run, the callback of a load that
\* the instance started changes neither isLoading nor error, adds no model to
\* the instance's scene and starts no animation in it.
C9_NoEffectAfterCleanup ==
  [][\A r \in pending :
       (Settled(r) /\ inst[r.inst].cleaned) =>
         /\ isLoading' = isLoading
         /\ error' = error
         /\ inst'[r.inst].scene = inst[r.inst].scene
         /\ ~ActionStarted(r.inst)]_vars

Callbacks ==
  {"vrmOnLoad", "vrmOnError", "fbxOnLoad", "fbxOnError", "gltfOnLoad", "gltfOnError"}

Invocations == {"mount", "setModelUrl", "loadVRM", "playAnimation"}

\* C10: a callback step issues no loader request, and a step that issues one
\* is a single loadVRM or playAnimation invocation issuing exactly one.
C10_NoRetry ==
  [][/\ (last' # last /\ last'.op \in Callbacks) =>
          (pending' \subseteq pending /\ issued' = issued)
     /\ pending' \ pending # {} =>
          /\ last'.op \in Invocations
          /\ issued' = issued + 1
          /\ \E r \in pending' : r.id = issued' /\ pending' = pending \cup {r}]_vars

C10_Witness ==
  /\ last.op \in {"vrmOnError", "fbxOnError", "gltfOnError"}
  /\ pending = {}
  /\ issued >= 1
  /\ error # ""

\* The bone a source bone name is matched to: the bone of the key equal to
\* the name; else the bone of the first key, in insertion order, that contains
\* the name or is contained in it, letter case ignored; else none.
MatchedBone(m, name) ==
  LET exact == {j \in 1..Len(m) : m[j].key = name}
      lower == toLowerCase(name)
      close == {j \in 1..Len(m) :
                  \/ includes(lower, toLowerCase(m[j].key))
                  \/ includes(toLowerCase(m[j].key), lower)}
  IN IF exact # {} THEN m[CHOOSE j \in exact : TRUE].bone
     ELSE IF close # {} THEN m[CHOOSE j \in close : \A k \in close : j <= k].bone
     ELSE Null

\* The source tracks that are retargeted: the name has a '.', and the bone
\* name in front of it is matched.
Kept(m, src) ==
  {j \in 1..Len(src) :
     includes(src[j].name, ".") /\ MatchedBone(m, split(src[j].name)[1]) # Null}

Rank(kept, j) == Cardinality({i \in kept : i <= j})

RetargetedAs(m, t, new) ==
  /\ new.name = MatchedBone(m, split(t.name)[1]).name \o "." \o split(t.name)[2]
  /\ new.times = t.times
  /\ new.values = t.values

\* C7: when the FBX callback builds the bone mapping, the retargeted clip has,
\* for each source track with a '.' in its name and a matched bone, exactly one
\* track, in source order, named '<VRM node name>.<property>' with the source
\* times and values; other source tracks give none, so the clip has no more
\* tracks than the source; and the clip is played when a track is retargeted.
C7_RetargetedTracks ==
  [][\A r \in pending :
       DeliverFbx(r) =>
         LET bm == buildBoneMapping(inst[r.inst].currentVrm)
             src == r.file[1].tracks
             kept == Kept(bm.mapping, src)
             started == {a \in Playing(inst'[r.inst]) : a.id = r.id}
         IN /\ (~bm.threw /\ kept # {}) => last'.out = "retargeted"
            /\ last'.out = "retargeted" =>
                 \E a \in started :
                   /\ a.clip.name = "retargeted-animation"
                   /\ Len(a.clip.tracks) = Cardinality(kept)
                   /\ Len(a.clip.tracks) <= Len(src)
                   /\ \A j \in kept :
                        RetargetedAs(bm.mapping, src[j], a.clip.tracks[Rank(kept, j)])]_vars

CurrentVrm == inst[Current].currentVrm

\* getValue of the expression manager: the weight, or -1 for an expression
\* the model does not define.
getValue(v, name) ==
  IF name \in DOMAIN v.expressionManager.weight
  THEN v.expressionManager.weight[name]
  ELSE -1

NonZeroPresets(v) == {p \in Presets : getValue(v, p) > 0}

AtMostOnePreset ==
  \A i \in Instances :
    HasManager(inst[i].currentVrm) =>
      Cardinality(NonZeroPresets(inst[i].currentVrm)) <= 1

ResetDone ==
  (HandleResetExpressions /\ HasManager(CurrentVrm)) =>
    /\ NonZeroPresets(CurrentVrm') = {}
    /\ activeExpression' = ""

\* C8: with a model that has an expression manager, at most one preset has a
\* non-zero weight; after setExpression(e, w), e has weight w and
\* activeExpression is e; after resetExpressions every preset has weight 0 and
\* activeExpression is empty.
C8_OneExpression ==
  [][/\ AtMostOnePreset'
     /\ \A e \in ExpressionNames, w \in Weights :
          (ContainerSetExpression(e, w) /\ HasManager(CurrentVrm)) =>
            /\ getValue(CurrentVrm', e) = w
            /\ activeExpression' = e
     /\ ResetDone]_vars

\* C8 as amended: as C8, except that after setExpression(e, w) the weight of e
\* is w clamped to [0, 1] when the model defines e, no preset other than e has
\* a non-zero weight, and activeExpression is e whether or not the model
\* defines e.
C8_OneExpressionAmended ==
  [][/\ AtMostOnePreset'
     /\ \A e \in ExpressionNames, w \in Weights :
          (ContainerSetExpression(e, w) /\ HasManager(CurrentVrm)) =>
            /\ e \in DOMAIN CurrentVrm.expressionManager.weight =>
                 getValue(CurrentVrm', e) = saturate(w)
            /\ NonZeroPresets(CurrentVrm') \subseteq {e}
            /\ activeExpression' = e
     /\ ResetDone]_vars

C8_Witness ==
  /\ last.op = "setExpression" /\ last.out = "sad"
  /\ HasManager(CurrentVrm)
  /\ activeExpression = "sad"
  /\ getValue(CurrentVrm, "sad") = 1
  /\ getValue(CurrentVrm, "happy") = 0

\* The requests a step issues.
Issued == pending' \ pending

\* A step that sets up instance i and makes it load url: one request for a
\* non-empty url, none for an empty one.
SetsUp(i, url) ==
  /\ Len(inst') = i
  /\ inst'[i] = NewInstance
  /\ IF url = ""
     THEN Issued = {} /\ issued' = issued
     ELSE /\ issued' = issued + 1
          /\ Issued = {[id |-> issued + 1, inst |-> i, kind |-> "vrm"]}

\* C11: mount sets up the first instance; in the viewer whose setup effect
\* depends on modelUrl, each change of the model URL cleans up the instance
\* there was (cleanup run, scene cleared) and sets up one new instance after
\* it, which starts exactly one model load for a non-empty URL and none for
\* the empty URL.
C11_UrlChangeRerunsSetup ==
  [][/\ Mount => SetsUp(1, modelUrl)
     /\ \A u \in ModelUrls :
          (SetModelUrl(u) /\ viewer = "VRMViewer") =>
            /\ inst'[Current].cleaned
            /\ inst'[Current].scene = {}
            /\ \A i \in 1..(Current - 1) : inst'[i] = inst[i]
            /\ SetsUp(Current + 1, u)
            /\ modelUrl' = u]_vars

C11_Witness ==
  /\ last.op = "setModelUrl" /\ last.out = "rerun"
  /\ Len(inst) = 2
  /\ inst[1].cleaned /\ inst[1].currentVrm # Null
  /\ modelUrl = "/models/b.vrm"
  /\ \E r \in pending : r.inst = 2 /\ r.kind = "vrm"

\* A step that is a call loadVRM(u) on the current instance.
CallsLoadVRM(u) == ContainerLoadVRM(u) \/ (HandleLoadModel /\ u = modelUrl)

C13_LoadVRMResetsExpression ==
  [][\A u \in ModelUrls \ {""} :
       CallsLoadVRM(u) => activeExpression' = ""]_vars

\* The action that is activeAction in I fades out, and activeAction is null.
ActiveFadedOut(I, J) ==
  /\ J.activeAction = 0
  /\ I.activeAction # 0 =>
       \A a \in Actions(J) : a.id = I.activeAction => a.faded

\* C14: after stopAnimation returns, activeAction is null and the action that
\* was active is fading out, and no animation action starts playing until
\* playAnimation is invoked again, also when an animation load requested
\* before the stop is still in flight: the step that follows a stop, which is
\* at most the invocation of playAnimation and not yet the callback of its
\* load, starts no action on a displayed model.
C14_StopStopsAnimation ==
  [][/\ HandleStopAnimation => ActiveFadedOut(inst[Current], inst'[Current])
     /\ last.op = "stopAnimation" =>
          \A i \in Instances : Displayed(inst[i]) => ~ActionStarted(i)]_vars

\* Nothing of the loading state, the instances (model, mixer, activeAction,
\* the mixer's actions) or the loader requests changes.
NoEffect == UNCHANGED <<isLoading, error, inst, pending, issued>>

\* C15: loadVRM called with an empty url, and playAnimation called with an
\* empty url or while no model is loaded, issue no loader request and leave
\* isLoading, error, currentVrm, mixer, activeAction and the playing animation
\* unchanged.
C15_RejectedCallsNoOps ==
  [][/\ ContainerLoadVRM("") => NoEffect
     /\ \A u \in AnimationUrls :
          (ContainerPlayAnimation(u) /\ (u = "" \/ inst[Current].currentVrm = Null))
            => NoEffect]_vars

C15_Witness ==
  /\ last.op = "playAnimation" /\ last.out = "rejected"
  /\ inst[last.inst].currentVrm = Null
  /\ isLoading
  /\ Cardinality(pending) = 1

\* Every model load has had its success or error callback.
ModelLoadsSettled == \A r \in pending : r.kind # "vrm"

\* C17: the loader calling exactly one callback per request, every loadVRM
\* call that sets isLoading to true is followed by isLoading being false: once
\* the callback of every model load has run, on whichever path, isLoading is
\* false.
C17_LoadingEnds == (Mounted /\ ModelLoadsSettled) => ~isLoading

\* C16: the bone the FBX callback finds for the bone name of a source track
\* is the bone of the mapping key equal to that name; otherwise the bone of the
\* first key, in the mapping's insertion order, for which case-insensitively
\* the name contains the key or the key contains the name; otherwise none.
C16_BoneMatching ==
  [][\A r \in pending :
       DeliverFbx(r) =>
         LET bm == buildBoneMapping(inst[r.inst].currentVrm)
             src == r.file[1].tracks
         IN ~bm.threw =>
              \A j \in 1..Len(src) :
                includes(src[j].name, ".") =>
                  findBone(bm.mapping, split(src[j].name)[1])
                    = MatchedBone(bm.mapping, split(src[j].name)[1])]_vars
====
